---- MODULE Spec2Model ----
(***************************************************************************)
(* A model of mc-status-bot: the launcher's retry loop (run.py main), the  *)
(* bot client's construction, start-up hook and command-error handler      *)
(* (bot.py ServerStatus), the owner-gated logout command (cogs/admin.py)   *)
(* and the flat help renderer (cogs/help.py).                              *)
(*                                                                         *)
(* Strings that the code transforms or compares character by character     *)
(* (the server type, which __init__ lower-cases) are sequences of          *)
(* one-character strings.  Python's None is the string "None".             *)
(***************************************************************************)
EXTENDS Integers, Sequences, FiniteSets, TLC

VARIABLES
    pc,                     \* main(): "loop" (head of while), "run" (inside bot_instance.run()),
                            \*         "done" (left the loop), "raised" (main left by an exception)
    tried_requirementstxt,  \* main(): local flag
    loops,                  \* main(): local counter
    outcomes,               \* history: what each finished attempt raised and its init_ok
    installs,               \* history: number of calls of PIP.run_install
    slept,                  \* history: number of calls of time.sleep in main
    config,                 \* the contents of config.yml
    bot_instance,           \* main(): TRUE once ServerStatus() returned in this attempt
    init_ok,                \* ServerStatus.init_ok
    restart_signal,         \* ServerStatus.restart_signal
    ctor_error,             \* what the last ServerStatus() raised, or NoError
    run_called,             \* the current instance's run() was entered (login with the token)
    phase,                  \* where the current instance is in its start-up
    attempted,              \* setup_hook: the extensions load_extension was called with, in order
    loaded,                 \* the extensions that are loaded
    setup_log,              \* setup_hook: what it logged
    presence_set,           \* setup_hook: change_presence succeeded
    closed,                 \* Client.close() has been called on this instance
    handler,                \* the last command-level handler that ran
    request,                \* its input
    events                  \* what it did, in order: messages sent, lines printed to
                            \* sys.stderr, the connection closed, an exception raised

vars == <<pc, tried_requirementstxt, loops, outcomes, installs, slept, config,
          bot_instance, init_ok, restart_signal, ctor_error, run_called, phase,
          attempted, loaded, setup_log, presence_set, closed,
          handler, request, events>>

supervisor_vars == <<pc, tried_requirementstxt, loops, outcomes, installs, slept>>
instance_vars == <<bot_instance, init_ok, restart_signal, ctor_error, run_called, phase>>
setup_vars == <<attempted, loaded, setup_log, presence_set>>
handler_vars == <<handler, request, events>>

-----------------------------------------------------------------------------
(* Bounds of the model *)

\* attempts of main()'s loop that the model follows
MaxAttempts == 4
\* refresh rates range from MinRefreshRate - RateSpan to MinRefreshRate + 1
RateSpan == 1
\* commands in one help mapping
MaxCommands == 3

-----------------------------------------------------------------------------
(* Python values *)

None == "None"

\* bool(x) for the values an attribute of the model holds
Truthy(x) == x \notin {"None", "False", ""}

Min(a, b) == IF a < b THEN a ELSE b

UpperCase == <<"A","B","C","D","E","F","G","H","I","J","K","L","M",
               "N","O","P","Q","R","S","T","U","V","W","X","Y","Z">>
LowerCase == <<"a","b","c","d","e","f","g","h","i","j","k","l","m",
               "n","o","p","q","r","s","t","u","v","w","x","y","z">>

LowerChar(c) ==
    IF \E i \in 1..26 : UpperCase[i] = c
    THEN LowerCase[CHOOSE i \in 1..26 : UpperCase[i] = c]
    ELSE c

\* str.lower()
Lower(s) == [i \in 1..Len(s) |-> LowerChar(s[i])]

-----------------------------------------------------------------------------
(* bot.py: configuration checks of ServerStatus.__init__ *)

MinRefreshRate == 30

java == <<"j","a","v","a">>
bedrock == <<"b","e","d","r","o","c","k">>

ServerTypes == { java,
                 <<"B","e","d","R","o","c","k">>,
                 <<"f","o","r","g","e">> }
RefreshRates == (MinRefreshRate - RateSpan) .. (MinRefreshRate + 1)

Configs == [server_type : ServerTypes, refresh_rate : RefreshRates]

NoError == [kind |-> "None", value |-> None]

InvalidServerType(server_type) == [kind |-> "InvalidServerType", value |-> server_type]
InvalidRefreshRate(refresh_rate) == [kind |-> "InvalidRefreshRate", value |-> refresh_rate]

\* a variant of the checks: the refresh rate is not checked
ConfigChecksNoRate(cfg) ==
    IF Lower(cfg.server_type) \notin {java, bedrock}
    THEN InvalidServerType(cfg.server_type)
    ELSE NoError

\* a variant of the checks: `<=` for `<`
ConfigChecksOffByOne(cfg) ==
    IF Lower(cfg.server_type) \notin {java, bedrock}
    THEN InvalidServerType(cfg.server_type)
    ELSE IF cfg.refresh_rate <= MinRefreshRate
         THEN InvalidRefreshRate(cfg.refresh_rate)
         ELSE NoError

\* the two checks of __init__, in the order of the code; NoError when both pass
ConfigChecks(cfg) ==
    IF Lower(cfg.server_type) \notin {java, bedrock}
    THEN InvalidServerType(cfg.server_type)
    ELSE IF cfg.refresh_rate < MinRefreshRate
         THEN InvalidRefreshRate(cfg.refresh_rate)
         ELSE NoError

-----------------------------------------------------------------------------
(* run.py: PIP and main *)

\* What PIP.run_install returns: check_call's 0, a CalledProcessError's return code,
\* None after any other exception ("Error using -m method"); or it raises RuntimeError
\* when pip cannot be imported.
PipResults == { [kind |-> "returncode", code |-> 0],
                [kind |-> "returncode", code |-> 1],
                [kind |-> "None", code |-> 0],
                [kind |-> "RuntimeError", code |-> 0] }

NoInstall == [kind |-> "not run", code |-> 0]

\* `if err:` of main
ErrTruthy(err) == err.kind = "returncode" /\ err.code # 0

max_wait_time == 60

\* a variant of __init__: restart_signal starts out set
RestartSignalSet == "True"

\* the value __init__ gives restart_signal
InitialRestartSignal == None

\* `"LoginFailure" in str(type(e))`
IsLoginFailure(exc) == exc = "LoginFailure"

\* a variant of the except clauses: tried_requirementstxt is never set
ExceptClausesForgetful(exc, tried, err) ==
    CASE exc = "SyntaxError" -> [flow |-> "break", tried |-> tried, installed |-> FALSE]
      [] exc = "ImportError" ->
            IF ~tried
            THEN [flow |-> IF err.kind = "RuntimeError" THEN "raise"
                           ELSE IF ErrTruthy(err) THEN "break" ELSE "continue",
                  tried |-> tried, installed |-> TRUE]
            ELSE [flow |-> "break", tried |-> tried, installed |-> FALSE]
      [] exc \notin {"SyntaxError", "ImportError", "None"} ->
            [flow |-> IF IsLoginFailure(exc) THEN "break" ELSE "fall",
             tried |-> tried, installed |-> FALSE]
      [] OTHER -> [flow |-> "fall", tried |-> tried, installed |-> FALSE]

\* The except clauses of main's try: the control flow they leave pending
\* ("break", "continue", "raise", or "fall" through to the code after the try),
\* the new tried_requirementstxt, and whether PIP.run_install was called.
ExceptClauses(exc, tried, err) ==
    CASE exc = "SyntaxError" -> [flow |-> "break", tried |-> tried, installed |-> FALSE]
      [] exc = "ImportError" ->
            IF ~tried
            THEN [flow |-> IF err.kind = "RuntimeError" THEN "raise"
                           ELSE IF ErrTruthy(err) THEN "break" ELSE "continue",
                  tried |-> TRUE, installed |-> TRUE]
            ELSE [flow |-> "break", tried |-> tried, installed |-> FALSE]
      [] exc \notin {"SyntaxError", "ImportError", "None"} ->
            [flow |-> IF IsLoginFailure(exc) THEN "break" ELSE "fall",
             tried |-> tried, installed |-> FALSE]
      [] OTHER -> [flow |-> "fall", tried |-> tried, installed |-> FALSE]

\* The finally clause: a break here replaces the pending control flow and skips
\* the increment of loops.
FinallyClause(flow, instance, ok, n) ==
    IF (~instance \/ ~ok) /\ n > 2
    THEN [flow |-> "break", loops |-> n]
    ELSE [flow |-> flow, loops |-> n + 1]

\* a variant of the restart check: `and` for `or`
NoRestartRequestedBoth(instance, signal) == ~instance /\ ~Truthy(signal)

\* `not bot_instance or not getattr(bot_instance, "restart_signal", False)`
NoRestartRequested(instance, signal) == ~instance \/ ~Truthy(signal)

\* The code after the try statement: break unless a restart was requested,
\* else sleep min(loops * 2, max_wait_time) seconds and loop.
AfterTry(flow, instance, signal, n) ==
    IF flow # "fall"
    THEN [flow |-> flow, sleeps |-> 0]
    ELSE IF NoRestartRequested(instance, signal)
         THEN [flow |-> "break", sleeps |-> 0]
         ELSE [flow |-> "continue",
               sleeps |-> IF Min(n * 2, max_wait_time) # 0 THEN 1 ELSE 0]

\* One attempt of the loop ends with exception exc ("None": run() returned):
\* the except clauses, the finally clause and the code after the try.
EndAttempt(exc, instance, ok, signal, err) ==
    LET ex == ExceptClauses(exc, tried_requirementstxt, err)
        fin == FinallyClause(ex.flow, instance, ok, loops)
        aft == AfterTry(fin.flow, instance, signal, fin.loops)
    IN  /\ tried_requirementstxt' = ex.tried
        /\ installs' = installs + (IF ex.installed THEN 1 ELSE 0)
        /\ loops' = fin.loops
        /\ slept' = slept + aft.sleeps
        /\ outcomes' = Append(outcomes, [exc |-> exc, init_ok |-> instance /\ ok,
                                         restart |-> instance /\ Truthy(signal),
                                         err |-> IF ex.installed THEN err ELSE NoInstall])
        /\ pc' = CASE aft.flow = "break" -> "done"
                   [] aft.flow = "raise" -> "raised"
                   [] OTHER -> "loop"

\* `from bot import ServerStatus` raises
ImportRaises ==
    /\ pc = "loop"
    /\ Len(outcomes) < MaxAttempts
    /\ \E exc \in {"SyntaxError", "ImportError"}, err \in PipResults :
          EndAttempt(exc, FALSE, FALSE, None, err)
    /\ bot_instance' = FALSE
    /\ init_ok' = FALSE
    /\ restart_signal' = None
    /\ ctor_error' = NoError
    /\ run_called' = FALSE
    /\ phase' = "NoInstance"
    /\ closed' = FALSE
    /\ UNCHANGED <<config, setup_vars, handler_vars>>

\* `bot_instance = ServerStatus()` and, when it returns, the entry of run()
Construct ==
    /\ pc = "loop"
    /\ Len(outcomes) < MaxAttempts
    /\ LET e == ConfigChecks(config)
       IN IF e.kind # "None"
          THEN /\ EndAttempt(e.kind, FALSE, FALSE, None, NoInstall)
               /\ bot_instance' = FALSE
               /\ phase' = "ConfigInvalid"
               /\ run_called' = FALSE
               /\ ctor_error' = e
          ELSE /\ bot_instance' = TRUE
               /\ phase' = "Login"
               /\ run_called' = TRUE
               /\ ctor_error' = NoError
               /\ pc' = "run"
               /\ UNCHANGED <<tried_requirementstxt, loops, outcomes, installs, slept>>
    /\ init_ok' = FALSE
    /\ restart_signal' = InitialRestartSignal
    /\ closed' = FALSE
    /\ attempted' = <<>>
    /\ loaded' = {}
    /\ setup_log' = <<>>
    /\ presence_set' = FALSE
    /\ handler' = "None"
    /\ request' = <<>>
    /\ events' = <<>>
    /\ UNCHANGED config

\* An exception leaves bot_instance.run(): a failed login, a failed connection or
\* a crash of the running client (the instance's init_ok and restart_signal are
\* what main's finally clause and restart check read).
RunExceptions(ph) ==
    IF ph = "Login" THEN {"LoginFailure", "Exception"} ELSE {"Exception"}

RunRaises ==
    /\ pc = "run"
    /\ phase \in {"Login", "Connecting", "Connected", "Ready"}
    /\ \E exc \in RunExceptions(phase) :
          EndAttempt(exc, TRUE, init_ok, restart_signal, NoInstall)
    /\ phase' = "Failed"
    /\ UNCHANGED <<config, bot_instance, init_ok, restart_signal, ctor_error, run_called,
                   setup_vars, closed, handler_vars>>

\* run() returns after the connection was closed
RunReturns ==
    /\ pc = "run"
    /\ phase = "Closed"
    /\ EndAttempt("None", TRUE, init_ok, restart_signal, NoInstall)
    /\ phase' = "Returned"
    /\ UNCHANGED <<config, bot_instance, init_ok, restart_signal, ctor_error, run_called,
                   setup_vars, closed, handler_vars>>

-----------------------------------------------------------------------------
(* bot.py: start-up of the client inside run() *)

initial_extensions == <<"cogs.status", "cogs.admin", "cogs.help">>

Extensions == {initial_extensions[i] : i \in 1..Len(initial_extensions)} \cup {"jishaku"}

\* the token is accepted: the client goes on to its setup_hook
Login ==
    /\ pc = "run"
    /\ phase = "Login"
    /\ phase' = "ExtensionsLoading"
    /\ UNCHANGED <<supervisor_vars, config, bot_instance, init_ok, restart_signal,
                   ctor_error, run_called, setup_vars, closed, handler_vars>>

NoSetup == [attempted |-> <<>>, loaded |-> {}, log |-> <<>>, presence |-> FALSE,
            raised |-> FALSE]

\* a variant of the pass: no try/except, the failure leaves setup_hook
TryLoadUncaught(extension, failing, acc) ==
    IF extension \in failing
    THEN [acc EXCEPT !.attempted = Append(@, extension), !.raised = TRUE]
    ELSE [acc EXCEPT !.attempted = Append(@, extension),
                     !.loaded = @ \cup {extension}]

\* One pass of the loop over initial_extensions: load_extension inside try/except
\* Exception, the failure logged at level error.
TryLoad(extension, failing, acc) ==
    IF extension \in failing
    THEN [acc EXCEPT !.attempted = Append(@, extension),
                     !.log = Append(@, [level |-> "error", about |-> extension])]
    ELSE [acc EXCEPT !.attempted = Append(@, extension),
                     !.loaded = @ \cup {extension}]

RECURSIVE LoadInitialExtensions(_, _, _)
LoadInitialExtensions(exts, failing, acc) ==
    IF exts = <<>> \/ acc.raised
    THEN acc
    ELSE LoadInitialExtensions(Tail(exts), failing, TryLoad(Head(exts), failing, acc))

\* The optional jishaku extension: try/except Exception, the failure logged at level info.
TryLoadJishaku(failing, acc) ==
    IF acc.raised
    THEN acc
    ELSE IF "jishaku" \in failing
         THEN [acc EXCEPT !.attempted = Append(@, "jishaku"),
                          !.log = Append(@, [level |-> "info", about |-> "jishaku"])]
         ELSE [acc EXCEPT !.attempted = Append(@, "jishaku"),
                          !.loaded = @ \cup {"jishaku"}]

\* The initial presence: only when the Status cog is there; get_status and
\* change_presence inside try/except Exception, the failure logged at level error.
SetInitialStatus(status_fails, acc) ==
    IF acc.raised \/ "cogs.status" \notin acc.loaded
    THEN acc
    ELSE IF status_fails
         THEN [acc EXCEPT !.log = Append(@, [level |-> "error", about |-> "initial status"])]
         ELSE [acc EXCEPT !.presence = TRUE]

SetupHook(failing, status_fails) ==
    SetInitialStatus(status_fails,
        TryLoadJishaku(failing,
            LoadInitialExtensions(initial_extensions, failing, NoSetup)))

\* setup_hook, with the extensions in `failing` raising from load_extension and,
\* when status_fails, get_status or change_presence raising
setup_hook ==
    /\ pc = "run"
    /\ phase = "ExtensionsLoading"
    /\ \E failing \in SUBSET Extensions, status_fails \in BOOLEAN :
          LET r == SetupHook(failing, status_fails)
          IN  /\ attempted' = r.attempted
              /\ loaded' = r.loaded
              /\ setup_log' = r.log
              /\ presence_set' = r.presence
              /\ IF r.raised
                 THEN /\ EndAttempt("Exception", TRUE, init_ok, restart_signal, NoInstall)
                      /\ phase' = "Failed"
                 ELSE /\ phase' = "Connecting"
                      /\ UNCHANGED supervisor_vars
    /\ UNCHANGED <<config, bot_instance, init_ok, restart_signal, ctor_error, run_called,
                   closed, handler_vars>>

\* the gateway connection is made
Connect ==
    /\ pc = "run"
    /\ phase = "Connecting"
    /\ phase' = "Connected"
    /\ UNCHANGED <<supervisor_vars, config, bot_instance, init_ok, restart_signal,
                   ctor_error, run_called, setup_vars, closed, handler_vars>>

on_ready ==
    /\ pc = "run"
    /\ phase = "Connected"
    /\ init_ok' = TRUE
    /\ phase' = "Ready"
    /\ UNCHANGED <<supervisor_vars, config, bot_instance, restart_signal,
                   ctor_error, run_called, setup_vars, closed, handler_vars>>

-----------------------------------------------------------------------------
(* bot.py: on_command_error *)

\* The classes of the errors the handler is given, each with its base classes
\* (discord.ext.commands.errors), itself included.
Bases(cls) ==
    CASE cls = "NoPrivateMessage"        -> {"NoPrivateMessage", "CheckFailure", "CommandError"}
      [] cls = "ArgumentParsingError"    -> {"ArgumentParsingError", "UserInputError", "CommandError"}
      [] cls = "UnexpectedQuoteError"    -> {"UnexpectedQuoteError", "ArgumentParsingError",
                                             "UserInputError", "CommandError"}
      [] cls = "CommandOnCooldown"       -> {"CommandOnCooldown", "CommandError"}
      [] cls = "BotMissingPermissions"   -> {"BotMissingPermissions", "CheckFailure", "CommandError"}
      [] cls = "BadArgument"             -> {"BadArgument", "UserInputError", "CommandError"}
      [] cls = "MemberNotFound"          -> {"MemberNotFound", "BadArgument", "UserInputError",
                                             "CommandError"}
      [] cls = "MissingRequiredArgument" -> {"MissingRequiredArgument", "UserInputError",
                                             "CommandError"}
      [] cls = "CommandInvokeError"      -> {"CommandInvokeError", "CommandError"}
      [] cls = "CommandNotFound"         -> {"CommandNotFound", "CommandError"}
      [] cls = "CheckFailure"            -> {"CheckFailure", "CommandError"}
      [] cls = "MissingPermissions"      -> {"MissingPermissions", "CheckFailure", "CommandError"}
      [] cls = "HTTPException"           -> {"HTTPException", "DiscordException"}
      [] cls = "Forbidden"               -> {"Forbidden", "HTTPException", "DiscordException"}
      [] cls = "NotFound"                -> {"NotFound", "HTTPException", "DiscordException"}
      [] OTHER                           -> {cls, "Exception"}

IsInstance(cls, base) == base \in Bases(cls)

\* the attributes an error of class cls has, of those the handler reads
Attributes(cls) ==
    (IF IsInstance(cls, "CommandOnCooldown") THEN {"retry_after"} ELSE {})
    \cup (IF IsInstance(cls, "BotMissingPermissions") \/ IsInstance(cls, "MissingPermissions")
          THEN {"missing_permissions"} ELSE {})
    \cup (IF IsInstance(cls, "MissingRequiredArgument") THEN {"param"} ELSE {})
    \cup (IF IsInstance(cls, "CommandInvokeError") THEN {"original"} ELSE {})

CommandErrorClasses ==
    {"NoPrivateMessage", "ArgumentParsingError", "UnexpectedQuoteError", "CommandOnCooldown",
     "BotMissingPermissions", "BadArgument", "MemberNotFound", "MissingRequiredArgument",
     "CommandNotFound", "CheckFailure", "MissingPermissions"}

OriginalClasses == {"HTTPException", "Forbidden", "ValueError"}

\* retry_after in tenths of a second
RetryAfters == {79}
PermissionLists == { <<"manage_guild", "send_messages">> }

Error(cls) == [cls |-> cls, original |-> None, retry_after |-> 0, missing_permissions |-> <<>>]

Errors ==
    {Error(cls) : cls \in CommandErrorClasses \ {"CommandOnCooldown", "BotMissingPermissions",
                                                 "MissingPermissions"}}
    \cup {[Error("CommandOnCooldown") EXCEPT !.retry_after = t] : t \in RetryAfters}
    \cup {[Error(cls) EXCEPT !.missing_permissions = ps] :
             cls \in {"BotMissingPermissions", "MissingPermissions"}, ps \in PermissionLists}
    \cup {[Error("CommandInvokeError") EXCEPT !.original = o] : o \in OriginalClasses}

\* str(ctx.command) of the commands the handler tells apart, and whether a
\* downstream handler has set the attribute `handled` on the context
Contexts == [command : {"help", "status"}, handled : BOOLEAN]

Send(kind, detail) == [op |-> "send", kind |-> kind, detail |-> detail]
Stderr(kind) == [op |-> "stderr", kind |-> kind, detail |-> 0]
Raise(kind) == [op |-> "raise", kind |-> kind, detail |-> 0]
Close == [op |-> "close", kind |-> "close", detail |-> 0]

\* reading error.<attr>: AttributeError when the error has no such attribute
Reading(error, attr, effects) ==
    IF attr \in Attributes(error.cls) THEN effects ELSE <<Raise("AttributeError")>>

\* send_unexpected_error: one embed with the error's text
send_unexpected_error(ctx, error) == <<Send("Unexpected Error", 0)>>

\* a variant of the branch: the original's class is not looked at
InvokeErrorBranchAll(ctx, error) ==
    Reading(error, "original",
        <<Stderr("Ignoring exception in command"), Stderr("traceback")>>
        \o send_unexpected_error(ctx, error))

\* the branch of a CommandInvokeError of a command other than help
InvokeErrorBranch(ctx, error) ==
    Reading(error, "original",
        IF ~IsInstance(error.original, "HTTPException")
        THEN <<Stderr("Ignoring exception in command"), Stderr("traceback")>>
             \o send_unexpected_error(ctx, error)
        ELSE <<>>)

\* the if/elif chain of the handler, first match wins: what it does, in order
ErrorChain(ctx, error) ==
    IF IsInstance(error.cls, "NoPrivateMessage")
    THEN <<Send("NoPrivateMessage", 0)>>
    ELSE IF IsInstance(error.cls, "ArgumentParsingError")
    THEN <<Send("ArgumentParsingError", 0)>>
    ELSE IF IsInstance(error.cls, "CommandOnCooldown")
    THEN Reading(error, "retry_after",
                 <<Send("CommandOnCooldown", error.retry_after \div 10)>>)
    ELSE IF IsInstance(error.cls, "BotMissingPermissions")
    THEN Reading(error, "missing_permissions",
                 <<Send("BotMissingPermissions", Len(error.missing_permissions))>>)
    ELSE IF IsInstance(error.cls, "BadArgument")
    THEN <<Send("BadArgument", 0)>>
    ELSE IF IsInstance(error.cls, "MissingRequiredArgument")
    THEN Reading(error, "param", <<Send("MissingRequiredArgument", 0)>>)
    ELSE IF IsInstance(error.cls, "CommandInvokeError") /\ ctx.command = "help"
    THEN <<>>
    ELSE IF IsInstance(error.cls, "CommandInvokeError")
    THEN InvokeErrorBranch(ctx, error)
    ELSE <<>>

\* a variant of the handler: the attribute `handled` is not looked at
OnCommandErrorUnchecked(ctx, error) == ErrorChain(ctx, error)

\* the handler: nothing when the context has the attribute `handled`
OnCommandError(ctx, error) ==
    IF ctx.handled THEN <<>> ELSE ErrorChain(ctx, error)

on_command_error ==
    /\ pc = "run"
    /\ phase = "Ready"
    /\ \E ctx \in Contexts, error \in Errors :
          /\ handler' = "on_command_error"
          /\ request' = [ctx |-> ctx, error |-> error]
          /\ events' = OnCommandError(ctx, error)
    /\ UNCHANGED <<supervisor_vars, config, instance_vars, setup_vars, closed>>

-----------------------------------------------------------------------------
(* cogs/admin.py: the logout command *)

Users == {"owner", "guest"}
Owners == {"owner"}

\* a variant of the check: everyone passes
cog_checkAnyone(author) == TRUE

\* Admin.cog_check: bot.is_owner(ctx.author)
cog_check(author) == author \in Owners

\* Admin.logout: the acknowledgement, then the close of the connection
Logout == <<Send("Logging out...", 0), Close>>

\* The command as the framework invokes it: the cog's check first; a failed
\* check is a CheckFailure that goes to on_command_error.
InvokeLogout(author) ==
    IF cog_check(author)
    THEN Logout
    ELSE OnCommandError([command |-> "logout", handled |-> FALSE], Error("CheckFailure"))

HasClose(effects) == \E i \in 1..Len(effects) : effects[i].op = "close"

logout ==
    /\ pc = "run"
    /\ phase = "Ready"
    /\ "cogs.admin" \in loaded
    /\ \E author \in Users :
          /\ handler' = "logout"
          /\ request' = [author |-> author]
          /\ events' = InvokeLogout(author)
          /\ closed' = HasClose(InvokeLogout(author))
          /\ phase' = IF HasClose(InvokeLogout(author)) THEN "Closed" ELSE phase
    /\ UNCHANGED <<supervisor_vars, config, bot_instance, init_ok, restart_signal,
                   ctor_error, run_called, setup_vars>>

-----------------------------------------------------------------------------
(* cogs/help.py: HelpCommand.send_bot_help *)

\* the code point of a lower-case letter
Ord(c) == 96 + CHOOSE i \in 1..26 : LowerCase[i] = c

\* s < t for Python strings of lower-case letters
RECURSIVE StrLess(_, _)
StrLess(s, t) ==
    IF t = <<>> THEN FALSE
    ELSE IF s = <<>> THEN TRUE
    ELSE IF Head(s) # Head(t) THEN Ord(Head(s)) < Ord(Head(t))
    ELSE StrLess(Tail(s), Tail(t))

\* The commands a mapping is made of: name, short_doc ("" when the command has
\* no doc), hidden, and whether its checks pass for the invoking user (can_run).
Command(name, short_doc, hidden, can_run) ==
    [name |-> name, short_doc |-> short_doc, hidden |-> hidden, can_run |-> can_run]

CommandPool ==
    { Command(<<"b">>, "doc of b", FALSE, TRUE),
      Command(<<"a">>, "", FALSE, TRUE),
      Command(<<"c">>, "doc of c", FALSE, TRUE),
      Command(<<"j","s","k">>, "", TRUE, TRUE) }

\* lists of distinct commands, in their order of declaration
CommandLists ==
    UNION { { cs \in [1..n -> CommandPool] : \A i, j \in 1..n : i # j => cs[i] # cs[j] }
            : n \in 0..MaxCommands }

\* The bot's mapping, cog -> commands, in the order of mapping.items(): the
\* first command belongs to a cog, the others to no cog.
Mapping(cs) ==
    IF cs = <<>>
    THEN << [cog |-> None, commands |-> <<>>] >>
    ELSE << [cog |-> "Status", commands |-> SubSeq(cs, 1, 1)],
            [cog |-> None, commands |-> SubSeq(cs, 2, Len(cs))] >>

Mappings == { Mapping(cs) : cs \in CommandLists }

\* `for cog, cmds in mapping.items(): all_commands.extend(cmds)`
RECURSIVE AllCommands(_)
AllCommands(mapping) ==
    IF mapping = <<>> THEN <<>>
    ELSE Head(mapping).commands \o AllCommands(Tail(mapping))

\* list.sort / sorted with key=lambda c: c.name (stable)
RECURSIVE Insert(_, _)
Insert(c, sorted) ==
    IF sorted = <<>> THEN <<c>>
    ELSE IF StrLess(c.name, Head(sorted).name) THEN <<c>> \o sorted
    ELSE <<Head(sorted)>> \o Insert(c, Tail(sorted))

RECURSIVE SortedByName(_)
SortedByName(cs) ==
    IF cs = <<>> THEN <<>>
    ELSE Insert(cs[Len(cs)], SortedByName(SubSeq(cs, 1, Len(cs) - 1)))

Shown(c) == ~c.hidden /\ c.can_run

\* HelpCommand.filter_commands(commands, sort=sort): hidden commands and commands
\* whose checks fail are dropped; with sort, the rest is sorted by name.
filter_commands(cs, sort) ==
    IF sort THEN SortedByName(SelectSeq(cs, Shown)) ELSE SelectSeq(cs, Shown)

\* HelpCommand.__init__: kwargs.setdefault("sort_commands", False)
SortCommandsOf(kwargs) ==
    IF "sort_commands" \in DOMAIN kwargs THEN kwargs["sort_commands"] ELSE FALSE

\* setup() of cogs/help.py: bot.help_command = HelpCommand()
NoKwargs == [k \in {} |-> FALSE]
sort_commands == SortCommandsOf(NoKwargs)

\* add_subcommand_formatting: one line per command
CommandLine(c) ==
    IF c.short_doc # ""
    THEN [kind |-> "command", name |-> c.name, short_doc |-> c.short_doc]
    ELSE [kind |-> "command", name |-> c.name, short_doc |-> ""]

TextLine(kind) == [kind |-> kind, name |-> <<>>, short_doc |-> ""]

\* the lines send_bot_help adds to the paginator for this mapping
SendBotHelp(mapping, sorting) ==
    LET filtered == filter_commands(AllCommands(mapping), TRUE)
        commands == IF sorting THEN SortedByName(filtered) ELSE filtered
    IN  << TextLine("description"), TextLine("empty"),
           TextLine("opening note"), TextLine("empty"),
           TextLine("**Commands**") >>
        \o [i \in 1..Len(commands) |-> CommandLine(commands[i])]

send_bot_help ==
    /\ pc = "run"
    /\ phase = "Ready"
    /\ "cogs.help" \in loaded
    /\ \E mapping \in Mappings :
          /\ handler' = "send_bot_help"
          /\ request' = [mapping |-> mapping, sort_commands |-> sort_commands]
          /\ events' = << [op |-> "send", kind |-> "pages",
                           detail |-> SendBotHelp(mapping, sort_commands)] >>
    /\ UNCHANGED <<supervisor_vars, config, instance_vars, setup_vars, closed>>

Init ==
    /\ pc = "loop"
    /\ tried_requirementstxt = FALSE
    /\ loops = 0
    /\ outcomes = <<>>
    /\ installs = 0
    /\ slept = 0
    /\ config \in Configs
    /\ bot_instance = FALSE
    /\ init_ok = FALSE
    /\ restart_signal = None
    /\ ctor_error = NoError
    /\ run_called = FALSE
    /\ phase = "NoInstance"
    /\ attempted = <<>>
    /\ loaded = {}
    /\ setup_log = <<>>
    /\ presence_set = FALSE
    /\ closed = FALSE
    /\ handler = "None"
    /\ request = <<>>
    /\ events = <<>>

Next ==
    \/ ImportRaises
    \/ Construct
    \/ RunRaises
    \/ RunReturns
    \/ Login
    \/ setup_hook
    \/ Connect
    \/ on_ready
    \/ on_command_error
    \/ logout
    \/ send_bot_help

Spec == Init /\ [][Next]_vars

-----------------------------------------------------------------------------
(* Properties of the launcher and of the client's construction *)

Last(seq) == seq[Len(seq)]

\* the attempt raised an exception that is neither an import, syntax nor login
\* error, and its instance never became ready
GenericCrash(o) ==
    /\ o.exc \notin {"None", "SyntaxError", "ImportError", "LoginFailure"}
    /\ ~o.init_ok

OnlyGenericCrashes ==
    /\ outcomes # <<>>
    /\ \A i \in 1..Len(outcomes) : GenericCrash(outcomes[i])

\* C1 as the specification states it: when every attempt raises a generic
\* exception and init_ok is never set, the loop has made exactly 3 attempts
\* when it stops.
C1_StopsAfterThreeAttempts ==
    (pc = "done" /\ OnlyGenericCrashes) => Len(outcomes) = 3

\* C1 as the code has it: when every attempt raises a generic exception and
\* init_ok is never set, the loop stops after the first attempt (no restart was
\* requested), and it never slept.
C1_StopsAfterOneAttempt ==
    OnlyGenericCrashes => (pc = "done" /\ Len(outcomes) = 1 /\ loops = 1 /\ slept = 0)

\* a connection attempt that crashed before the client was ready ended the loop
C1_Witness ==
    /\ pc = "done"
    /\ Len(outcomes) = 1
    /\ outcomes[1].exc = "Exception"
    /\ run_called
    /\ ~init_ok

InstallSucceeded(o) == o.err.kind = "returncode" /\ o.err.code = 0

ImportErrorsBefore(i) == {j \in 1..(i - 1) : outcomes[j].exc = "ImportError"}

\* C2: PIP.run_install is called at most once; after a first ImportError whose
\* install succeeds the loop goes on to one more attempt, and after a first
\* attempt of that kind exactly one more is made; an ImportError after the
\* install was tried ends the loop at once, with no install.
C2_InstallOnceRetryOnce ==
    /\ installs <= 1
    /\ \A i \in 1..Len(outcomes) :
          outcomes[i].exc = "ImportError" =>
             IF ImportErrorsBefore(i) = {}
             THEN /\ outcomes[i].err # NoInstall
                  /\ InstallSucceeded(outcomes[i]) =>
                        (Len(outcomes) > i \/ pc \in {"loop", "run"})
             ELSE /\ outcomes[i].err = NoInstall
                  /\ i = Len(outcomes)
                  /\ pc = "done"
    /\ (/\ outcomes # <<>>
        /\ outcomes[1].exc = "ImportError"
        /\ InstallSucceeded(outcomes[1]))
       => /\ Len(outcomes) <= 2
          /\ pc = "done" => Len(outcomes) = 2

\* the import failed once, the install succeeded, and the second attempt's client is ready
C2_Witness ==
    /\ Len(outcomes) = 1
    /\ outcomes[1].exc = "ImportError"
    /\ InstallSucceeded(outcomes[1])
    /\ installs = 1
    /\ phase = "Ready"
    /\ init_ok

\* an attempt has just finished and the loop goes on to another one
Continues == Len(outcomes') > Len(outcomes) /\ pc' = "loop"

\* C3 as the specification states it: after an attempt finishes, the loop
\* continues to another attempt only if the attempt's instance requested a
\* restart; and main never sleeps.
C3_ContinuesOnlyOnRestart ==
    [][ /\ Continues => Last(outcomes').restart
        /\ slept' = 0 ]_vars

\* C3 as the code has it: after an attempt finishes, the loop continues only if
\* the attempt's instance requested a restart, or the attempt raised the first
\* ImportError and the install it triggered did not report a failure; any other
\* crash, and a return of run() without a restart request, ends the loop; and
\* main never sleeps.
C3_ContinuesOnRestartOrInstall ==
    [][ /\ Continues =>
              \/ Last(outcomes').restart
              \/ /\ Last(outcomes').exc = "ImportError"
                 /\ ~tried_requirementstxt
                 /\ installs' = installs + 1
                 /\ ~ErrTruthy(Last(outcomes').err)
        /\ (/\ Len(outcomes') > Len(outcomes)
            /\ Last(outcomes').exc # "ImportError"
            /\ ~Last(outcomes').restart) => pc' = "done"
        /\ slept' = 0 ]_vars

\* run() returned after a logout, no restart was requested, and the loop ended
C3_Witness ==
    /\ pc = "done"
    /\ outcomes # <<>>
    /\ Last(outcomes).exc = "None"
    /\ Last(outcomes).init_ok
    /\ slept = 0

\* s and t are the same string up to the case of their letters
SameIgnoringCase(s, t) ==
    /\ Len(s) = Len(t)
    /\ \A i \in 1..Len(s) :
          \/ s[i] = t[i]
          \/ \E k \in 1..26 : {s[i], t[i]} = {UpperCase[k], LowerCase[k]}

ServerTypeIsValid(cfg) ==
    SameIgnoringCase(cfg.server_type, java) \/ SameIgnoringCase(cfg.server_type, bedrock)

ConfigIsValid(cfg) == ServerTypeIsValid(cfg) /\ cfg.refresh_rate >= 30

ValidationErrors == {"InvalidServerType", "InvalidRefreshRate"}

\* C4: run() is entered only with a configuration whose server type is java or
\* bedrock (in any case) and whose refresh rate is at least 30; with any other
\* configuration ServerStatus() raises a validation error, there is no
\* instance, and run() is not entered.
C4_NoConnectionWithoutValidation ==
    /\ run_called => ConfigIsValid(config)
    /\ phase \notin {"NoInstance", "ConfigInvalid"} => ConfigIsValid(config)
    /\ (~ConfigIsValid(config) /\ phase # "NoInstance") =>
          /\ phase = "ConfigInvalid"
          /\ ctor_error.kind \in ValidationErrors
          /\ ~bot_instance
          /\ ~run_called
          /\ pc # "run"

\* ServerStatus() raised for a server type that is neither java nor bedrock
C4_Witness ==
    /\ phase = "ConfigInvalid"
    /\ ctor_error.kind = "InvalidServerType"
    /\ ~run_called
    /\ Len(outcomes) = 1

Constructed == phase # "NoInstance"

\* C5 as the specification states it: with a refresh rate below 30 the
\* construction fails with InvalidRefreshRate carrying the rate; with a rate
\* of 30 or more it passes.
C5_RefreshRateAlone ==
    Constructed =>
       IF config.refresh_rate < 30
       THEN ctor_error.kind = "InvalidRefreshRate" /\ ctor_error.value = config.refresh_rate
       ELSE ctor_error.kind = "None"

\* C5 as the code has it: the server type is checked first; with a valid server
\* type, a refresh rate below 30 fails with InvalidRefreshRate carrying the rate
\* and a rate of 30 or more passes.
C5_RefreshRateAfterServerType ==
    (Constructed /\ ServerTypeIsValid(config)) =>
       IF config.refresh_rate < 30
       THEN ctor_error.kind = "InvalidRefreshRate" /\ ctor_error.value = config.refresh_rate
       ELSE ctor_error.kind = "None" /\ bot_instance

\* ServerStatus() raised InvalidRefreshRate for a rate below 30
C5_Witness ==
    /\ Constructed
    /\ config.refresh_rate < 30
    /\ ctor_error.kind = "InvalidRefreshRate"
    /\ ctor_error.value = config.refresh_rate

LogEntriesAbout(log, what) == {i \in 1..Len(log) : log[i].about = what}

\* C9: whichever extensions fail to load, setup_hook calls load_extension once
\* for each initial extension, in the order of the list, and then for jishaku;
\* it logs each failure once; a failure to set the initial presence is logged;
\* it does not raise, and the client goes on to connect.
C9_SetupHookLoadsAll ==
    [][ (phase = "ExtensionsLoading" /\ phase' # phase) =>
           /\ phase' = "Connecting"
           /\ pc' = "run"
           /\ attempted' = initial_extensions \o <<"jishaku">>
           /\ \A ext \in Extensions :
                 Cardinality(LogEntriesAbout(setup_log', ext))
                    = (IF ext \in loaded' THEN 0 ELSE 1)
           /\ ("cogs.status" \in loaded' /\ ~presence_set') =>
                 Cardinality(LogEntriesAbout(setup_log', "initial status")) = 1 ]_vars

\* the first and the last extension failed to load, the one between them loaded,
\* and the client has gone on to connect
C9_Witness ==
    /\ phase = "Connecting"
    /\ attempted = initial_extensions \o <<"jishaku">>
    /\ "cogs.status" \notin loaded
    /\ "cogs.admin" \in loaded
    /\ "jishaku" \notin loaded
    /\ Len(setup_log) >= 2

-----------------------------------------------------------------------------
(* Properties of the command handlers *)

Names(cs) == [i \in 1..Len(cs) |-> cs[i].name]

CommandLinesOf(lines) == SelectSeq(lines, LAMBDA l : l.kind = "command")

\* the commands of all cogs of the mapping that help lists, in declaration order
DeclaredAndShown(mapping) == SelectSeq(AllCommands(mapping), Shown)

IsSortedByName(ns) == \A i \in 1..(Len(ns) - 1) : ~StrLess(ns[i + 1], ns[i])

\* C6: send_bot_help renders one line per listed command of any cog, in one
\* flat list; with sort_commands=False the lines are in the commands'
\* declaration order, with sort_commands=True they are sorted by name.
C6_HelpKeepsDeclarationOrder ==
    handler = "send_bot_help" =>
       LET rendered == Names(CommandLinesOf(events[1].detail))
           declared == Names(DeclaredAndShown(request.mapping))
       IN  /\ Len(rendered) = Len(declared)
           /\ {rendered[i] : i \in 1..Len(rendered)} = {declared[i] : i \in 1..Len(declared)}
           /\ IF request.sort_commands
              THEN IsSortedByName(rendered)
              ELSE rendered = declared

Sends(effects) == SelectSeq(effects, LAMBDA e : e.op = "send")
Prints(effects) == SelectSeq(effects, LAMBDA e : e.op = "stderr")
Raises(effects) == SelectSeq(effects, LAMBDA e : e.op = "raise")
Closes(effects) == SelectSeq(effects, LAMBDA e : e.op = "close")

\* the rows of the error table that answer by the kind of the error alone, in
\* their order of priority
PriorityRows == <<"NoPrivateMessage", "ArgumentParsingError", "CommandOnCooldown",
                  "BotMissingPermissions", "BadArgument", "MissingRequiredArgument">>

MatchingRows(error) == {i \in 1..Len(PriorityRows) : IsInstance(error.cls, PriorityRows[i])}

FirstMatchingRow(error) ==
    PriorityRows[CHOOSE i \in MatchingRows(error) : \A j \in MatchingRows(error) : i <= j]

C8_FallbackOnlyForOtherCauses ==
    (/\ handler = "on_command_error"
     /\ request.error.cls = "CommandInvokeError"
     /\ ~request.ctx.handled) =>
       LET reacts == /\ request.ctx.command # "help"
                     /\ "HTTPException" \notin Bases(request.error.original)
       IN  IF reacts
           THEN /\ Len(Sends(events)) = 1
                /\ Sends(events)[1].kind = "Unexpected Error"
                /\ Len(Prints(events)) >= 1
                /\ \E i \in 1..Len(Prints(events)) : Prints(events)[i].kind = "traceback"
           ELSE events = <<>>

\* a ValueError inside a command other than help was printed and answered with the embed
C8_Witness ==
    /\ handler = "on_command_error"
    /\ request.error.cls = "CommandInvokeError"
    /\ request.error.original = "ValueError"
    /\ request.ctx = [command |-> "status", handled |-> FALSE]
    /\ Len(Sends(events)) = 1
    /\ Len(Prints(events)) = 2

IsAcknowledgement(e) == e.op = "send" /\ e.kind = "Logging out..."

\* C10: the connection is closed only by a logout whose author passed the
\* owner check, and in that invocation the acknowledgement is sent before the
\* close; a logout by anyone else sends no acknowledgement and does not close.
C10_LogoutOnlyByOwner ==
    /\ closed => (handler = "logout" /\ request.author \in Owners)
    /\ handler = "logout" =>
          IF request.author \in Owners
          THEN /\ closed
               /\ Len(Closes(events)) = 1
               /\ \A j \in 1..Len(events) :
                     events[j].op = "close" =>
                        \E i \in 1..(j - 1) : IsAcknowledgement(events[i])
          ELSE /\ ~closed
               /\ phase # "Closed"
               /\ Closes(events) = <<>>
               /\ \A i \in 1..Len(events) : ~IsAcknowledgement(events[i])

\* the owner logged out: acknowledgement, then close, and run() has returned
C10_Witness ==
    /\ closed
    /\ handler = "logout"
    /\ request.author = "owner"
    /\ events = <<Send("Logging out...", 0), Close>>
    /\ phase = "Returned"
====
